---- MODULE Spec2Model ----
(***************************************************************************)
(* A model of create-pr.py: the pull-request reconciliation and readiness  *)
(* pipeline of nixpkgs-upkeep.  One run of main() is a process that walks  *)
(* Version Gate -> Duplicate Finder -> Branch Reconciler -> Readiness Gate *)
(* against a hosting service (proposals) and the bot's fork (branches).    *)
(*                                                                         *)
(* Text is modelled as a sequence of one-character strings.  A title is a  *)
(* sequence of words: words are separated by single spaces, except that    *)
(* the word ":" is glued to the word before it ("pkg: 1.0.0 -> 1.1.0" is   *)
(* <<"pkg", ":", "1.0.0", "->", "1.1.0">>).                                *)
(***************************************************************************)
EXTENDS Integers, Sequences, FiniteSets, TLC

\* ------------------------------------------------------------ bounds
MaxRuns == 2
MaxInitPrs == 1

\* ------------------------------------------------------------ constants
TARGET_BRANCH == "master"
BOT_USER == "botnk"
\* The literal "<!-- BEGIN_TEMPLATE -->", abbreviated to two characters
\* that occur nowhere else in a marker-free text.
TEMPLATE_MARKER == <<"<", ">">>
PACKAGE == "pkg"
\* Python's None (a value no text equals).
None == <<"None">>

\* ------------------------------------------------------------ text helpers
Whitespace == {" ", "\n"}

RECURSIVE LStrip(_)
LStrip(s) ==
  IF s # <<>> /\ Head(s) \in Whitespace THEN LStrip(Tail(s)) ELSE s

RECURSIVE RStrip(_)
RStrip(s) ==
  IF s # <<>> /\ s[Len(s)] \in Whitespace
    THEN RStrip(SubSeq(s, 1, Len(s) - 1))
    ELSE s

\* str.strip()
Strip(s) == RStrip(LStrip(s))

\* Whether sub occurs in s at position i.
OccursAt(s, sub, i) ==
  /\ i >= 1
  /\ i + Len(sub) - 1 <= Len(s)
  /\ SubSeq(s, i, i + Len(sub) - 1) = sub

\* str.find + 1: the first position of sub in s, 0 when there is none.
Find(s, sub) ==
  IF \E i \in 1..Len(s) : OccursAt(s, sub, i)
    THEN CHOOSE i \in 1..Len(s) :
           /\ OccursAt(s, sub, i)
           /\ \A j \in 1..(i - 1) : ~OccursAt(s, sub, j)
    ELSE 0

\* str.split(sep, maxsplit=1)
SplitOnce(s, sep) ==
  LET i == Find(s, sep) IN
    IF i = 0
      THEN <<s>>
      ELSE <<SubSeq(s, 1, i - 1), SubSeq(s, i + Len(sep), Len(s))>>

\* ------------------------------------------------------------ body templating
make_body(body, template) ==
  Strip(body) \o <<"\n", "\n">> \o TEMPLATE_MARKER \o <<"\n", "\n">> \o Strip(template)

extract_template(body) ==
  LET parts == SplitOnce(body, TEMPLATE_MARKER) IN
    IF Len(parts) = 2 THEN parts[2] ELSE None

\* Python's `x or y` on an optional text: None and "" are falsy.
OrElse(x, y) == IF x = None \/ x = <<>> THEN y ELSE x

\* ------------------------------------------------------------ semantic versions
\* The version strings a run can observe, with their characters.
Versions == {"1.0.0", "1.1.0", "1.2.0", "1.10.0", "1.1.0-rc", "1.1.0+b", "1.1"}

\* The versions of the package the reconciliation scenarios move between,
\* and a malformed one.
CoreVersions == {"1.0.0", "1.1.0", "1.2.0", "1.1"}

VersionText(v) ==
  CASE v = "1.0.0"    -> <<"1", ".", "0", ".", "0">>
    [] v = "1.1.0"    -> <<"1", ".", "1", ".", "0">>
    [] v = "1.2.0"    -> <<"1", ".", "2", ".", "0">>
    [] v = "1.10.0"   -> <<"1", ".", "1", "0", ".", "0">>
    [] v = "1.1.0-rc" -> <<"1", ".", "1", ".", "0", "-", "r", "c">>
    [] v = "1.1.0+b"  -> <<"1", ".", "1", ".", "0", "+", "b">>
    [] v = "1.1"      -> <<"1", ".", "1">>

Digits == {"0", "1", "2", "3", "4", "5", "6", "7", "8", "9"}
Letters == {"a", "b", "c", "r"}

DigitVal(c) ==
  CASE c = "0" -> 0 [] c = "1" -> 1 [] c = "2" -> 2 [] c = "3" -> 3
    [] c = "4" -> 4 [] c = "5" -> 5 [] c = "6" -> 6 [] c = "7" -> 7
    [] c = "8" -> 8 [] c = "9" -> 9

\* The code point order of the characters an identifier can hold.
CharRank(c) ==
  CASE c = "-" -> 0
    [] c \in Digits -> 1 + DigitVal(c)
    [] c = "a" -> 11 [] c = "b" -> 12 [] c = "c" -> 13 [] c = "r" -> 14

Cmp(x, y) == IF x < y THEN -1 ELSE IF x > y THEN 1 ELSE 0

IsNumeric(s) == s # <<>> /\ \A i \in 1..Len(s) : s[i] \in Digits

\* 0|[1-9]\d*
IsNumericId(s) == IsNumeric(s) /\ (Len(s) = 1 \/ s[1] # "0")

\* [0-9a-zA-Z-]+
IsAlnumId(s) ==
  s # <<>> /\ \A i \in 1..Len(s) : s[i] \in Digits \cup Letters \cup {"-"}

RECURSIVE ToNat(_)
ToNat(s) ==
  IF s = <<>> THEN 0
    ELSE 10 * ToNat(SubSeq(s, 1, Len(s) - 1)) + DigitVal(s[Len(s)])

RECURSIVE SplitAll(_, _)
SplitAll(s, c) ==
  LET i == Find(s, <<c>>) IN
    IF i = 0 THEN <<s>>
      ELSE <<SubSeq(s, 1, i - 1)>> \o SplitAll(SubSeq(s, i + 1, Len(s)), c)

\* semver's Version.parse: major.minor.patch[-prerelease][+build]; ok is
\* FALSE where the library raises ValueError.
VersionParse(text) ==
  LET plus  == Find(text, <<"+">>)
      main  == IF plus = 0 THEN text ELSE SubSeq(text, 1, plus - 1)
      build == IF plus = 0 THEN None ELSE SubSeq(text, plus + 1, Len(text))
      dash  == Find(main, <<"-">>)
      core  == IF dash = 0 THEN main ELSE SubSeq(main, 1, dash - 1)
      pre   == IF dash = 0 THEN None ELSE SubSeq(main, dash + 1, Len(main))
      parts == SplitAll(core, ".")
      preIds == IF pre = None THEN <<>> ELSE SplitAll(pre, ".")
      buildIds == IF build = None THEN <<>> ELSE SplitAll(build, ".")
      ok == /\ Len(parts) = 3
            /\ \A i \in 1..Len(parts) : IsNumericId(parts[i])
            /\ \A i \in 1..Len(preIds) :
                 /\ IsAlnumId(preIds[i])
                 /\ IsNumeric(preIds[i]) => IsNumericId(preIds[i])
            /\ \A i \in 1..Len(buildIds) : IsAlnumId(buildIds[i])
  IN IF ok
       THEN [ok |-> TRUE,
             core |-> <<ToNat(parts[1]), ToNat(parts[2]), ToNat(parts[3])>>,
             prerelease |-> preIds]
       ELSE [ok |-> FALSE, core |-> <<>>, prerelease |-> <<>>]

\* cmp() of two tuples of naturals.
RECURSIVE CmpTuple(_, _)
CmpTuple(a, b) ==
  IF a = <<>> \/ b = <<>> THEN Cmp(Len(a), Len(b))
    ELSE IF Head(a) # Head(b) THEN Cmp(Head(a), Head(b))
    ELSE CmpTuple(Tail(a), Tail(b))

\* cmp() of two strings, by code point.
RECURSIVE CmpStr(_, _)
CmpStr(a, b) ==
  IF a = <<>> \/ b = <<>> THEN Cmp(Len(a), Len(b))
    ELSE IF Head(a) # Head(b) THEN Cmp(CharRank(Head(a)), CharRank(Head(b)))
    ELSE CmpStr(Tail(a), Tail(b))

cmp_prerelease_tag(a, b) ==
  IF IsNumeric(a) /\ IsNumeric(b) THEN Cmp(ToNat(a), ToNat(b))
    ELSE IF IsNumeric(a) THEN -1
    ELSE IF IsNumeric(b) THEN 1
    ELSE CmpStr(a, b)

RECURSIVE nat_cmp(_, _)
nat_cmp(a, b) ==
  IF a = <<>> \/ b = <<>> THEN Cmp(Len(a), Len(b))
    ELSE LET c == cmp_prerelease_tag(Head(a), Head(b)) IN
           IF c # 0 THEN c ELSE nat_cmp(Tail(a), Tail(b))

\* Version.compare on two parsed versions: build metadata does not count,
\* and a version without a prerelease is above the same version with one.
VersionCompare(v1, v2) ==
  LET x == CmpTuple(v1.core, v2.core)
      rccmp == nat_cmp(v1.prerelease, v2.prerelease)
  IN IF x # 0 THEN x
       ELSE IF rccmp = 0 THEN 0
       ELSE IF v1.prerelease = <<>> THEN 1
       ELSE IF v2.prerelease = <<>> THEN -1
       ELSE rccmp

\* Whether semver.compare(ver1, ver2) raises ValueError: one of the two
\* strings does not parse.
semver_raises(ver1, ver2) ==
  ~(VersionParse(VersionText(ver1)).ok /\ VersionParse(VersionText(ver2)).ok)

\* semver.compare(ver1, ver2) of two version strings that parse.
semver_compare(ver1, ver2) ==
  VersionCompare(VersionParse(VersionText(ver1)), VersionParse(VersionText(ver2)))

\* semver_is_upgrade, with "not older" taken for "newer".
semver_is_upgrade_or_equal(old, new) == semver_compare(new, old) >= 0

\* semver_is_upgrade(old, new), where it does not raise.
semver_is_upgrade(old, new) == semver_compare(new, old) = 1

\* ------------------------------------------------------------ titles and search
\* f"{package}: {old} -> {new}"
TitleOf(package, old, new) == <<package, ":", old, "->", new>>

\* title.startswith(prefix + " "): the words of prefix, then a space and more.
StartsWithWords(title, prefix) ==
  /\ Len(title) > Len(prefix)
  /\ SubSeq(title, 1, Len(prefix)) = prefix

\* The hosting service's `in:title` match of one search term.
TitleHas(title, word) == \E i \in 1..Len(title) : title[i] = word

\* Every ordering of a finite set: the orders a search may return it in.
Orderings(S) ==
  {q \in [1..Cardinality(S) -> S] : \A i, j \in 1..Cardinality(S) : q[i] = q[j] => i = j}

\* ------------------------------------------------------------ the world
Procs == {1, 2}
Packages == {PACKAGE, "oth"}
\* A branch f"{package}-{version}" of the bot's fork.
BranchName(package, version) == <<package, version>>
Branches == {BranchName(p, v) : p \in Packages, v \in Versions}

\* The value of meta.changelog.
Changelog == "changelog-url"

\* textwrap.dedent(f"""\n Upgrades {PACKAGE} from {PRE_VERSION} to {new_version} ... """)
Summary(pre, new) ==
  <<"\n", "U", " ">> \o VersionText(pre) \o <<" ">> \o VersionText(new) \o <<"\n">>

\* The content of .github/PULL_REQUEST_TEMPLATE.md.
DefaultTemplate == <<"t", " ", "t", "\n">>

\* Bodies an open proposal may carry when a run finds it.
StdBody == make_body(Summary("1.0.0", "1.1.0"), DefaultTemplate)
HumanBody == make_body(<<"s">>, <<"h">>)
EdgedBody == <<"s", "\n", "\n">> \o TEMPLATE_MARKER \o <<" ", "h", "\n">>
EmptyBlockBody == <<"s">> \o TEMPLATE_MARKER
NoMarkerBody == <<"s">>

Proposal(title, author, head, isDraft, open, body) ==
  [title |-> title, author |-> author, head |-> head, base |-> TARGET_BRANCH,
   isDraft |-> isDraft, open |-> open, body |-> body, comments |-> <<>>]

\* The proposals the hosting service may hold before the first run.
InitCandidates ==
  LET t == TitleOf(PACKAGE, "1.0.0", "1.1.0")
      h == BranchName(PACKAGE, "1.1.0")
  IN { Proposal(t, BOT_USER, h, TRUE, TRUE, StdBody),
       Proposal(t, BOT_USER, h, FALSE, TRUE, EdgedBody),
       Proposal(t, BOT_USER, h, TRUE, TRUE, HumanBody),
       Proposal(t, BOT_USER, h, TRUE, TRUE, EmptyBlockBody),
       Proposal(t, BOT_USER, h, FALSE, TRUE, NoMarkerBody),
       Proposal(t, BOT_USER, h, TRUE, TRUE, None),
       Proposal(t, BOT_USER, h, TRUE, FALSE, StdBody),
       Proposal(t, "alice", h, TRUE, TRUE, NoMarkerBody),
       Proposal(TitleOf(PACKAGE, "1.1.0", "1.2.0"), "alice",
                BranchName(PACKAGE, "1.2.0"), FALSE, TRUE, NoMarkerBody),
       Proposal(TitleOf("oth", "1.0.0", "1.1.0") \o <<"for", PACKAGE>>, BOT_USER,
                BranchName("oth", "1.1.0"), TRUE, TRUE, StdBody) }

\* f"{PACKAGE}: {from} -> {to}\n\nChangelog: {changelog}", word by word
commit_msg(package, from, to, changelog) ==
  TitleOf(package, from, to) \o <<"\n\n", "Changelog:", changelog>>

Commit(n, kind, from, to) ==
  [run |-> n, kind |-> kind, from |-> from, to |-> to,
   msg |-> commit_msg(PACKAGE, from, to, Changelog), tree |-> to]

NoPr == [number |-> 0, head |-> <<>>, body |-> None]

IdleRun ==
  [pc |-> "idle", n |-> 0, pre |-> "", new_version |-> "", branch |-> <<>>,
   commit |-> <<>>, items |-> <<>>, base_pr |-> 0, pr |-> NoPr,
   base_version |-> "", local |-> <<>>,
   build_succeeded |-> FALSE, build_log |-> <<>>, events |-> <<>>,
   exit |-> "none", result |-> "", prs0 |-> <<>>, fork0 |-> <<>>]

VARIABLES
  prs,      \* the hosting service's proposals; a proposal's number is its index
  fork,     \* the bot's fork: branch -> its commits past the target branch
  run,      \* each process's run of main(): position, locals, calls made
  started,  \* the number of runs started so far
  probe     \* one evaluation of the body functions on a drawn body and summary

vars == <<prs, fork, run, started, probe>>

Event(op, n, ref) == [op |-> op, n |-> n, ref |-> ref]

\* No body function is being evaluated.
IdleProbe == [pc |-> "idle", S |-> <<>>, X |-> <<>>, T |-> None, B |-> None,
              out |-> None]

Init ==
  /\ prs \in UNION {[1..k -> InitCandidates] : k \in 0..MaxInitPrs}
  /\ \A i, j \in 1..Len(prs) :
       (prs[i].open /\ prs[j].open /\ prs[i].author = prs[j].author
          /\ prs[i].head = prs[j].head) => i = j
  /\ fork = [b \in Branches |->
               IF \E i \in 1..Len(prs) : prs[i].author = BOT_USER /\ prs[i].head = b
                 THEN <<Commit(0, "commit", "1.0.0", b[2])>>
                 ELSE <<>>]
  /\ run = [r \in Procs |-> IdleRun]
  /\ started = 0
  /\ probe = IdleProbe

\* ------------------------------------------------------------ helpers of main()
Last(q) == q[Len(q)]

IsPrefix(a, b) == Len(a) <= Len(b) /\ SubSeq(b, 1, Len(a)) = a

\* A push taken whenever the two histories start at the same commit.
FastForwardFromCommonRoot(remote, local) ==
  IF remote = <<>> \/ local = <<>> THEN remote = <<>>
    ELSE local[1] = remote[1]

\* git push --force: the fork takes any history.
FastForwardForced(remote, local) == TRUE

\* git push (no --force): the fork takes the pushed history only when the
\* branch's commits on the fork are all in it.
FastForward(remote, local) == IsPrefix(remote, local)

\* search_existing_prs, with the author filter of the base search.
search_existing_prs_by_bot(P, package, new_version) ==
  {n \in 1..Len(P) :
     /\ P[n].open
     /\ P[n].author = BOT_USER
     /\ TitleHas(P[n].title, package)
     /\ TitleHas(P[n].title, new_version)}

\* The numbers of the proposals a search for `q=f"{package} {version} ...
\* type:pr state:open in:title"` returns, any author.
search_existing_prs(P, package, new_version) ==
  {n \in 1..Len(P) :
     /\ P[n].open
     /\ TitleHas(P[n].title, package)
     /\ TitleHas(P[n].title, new_version)}

\* The same search with `author:{BOT_USER}`.
\* search_base_prs, with is:closed in the place of is:open.
search_base_prs_closed(P, package, old_version) ==
  {n \in 1..Len(P) :
     /\ ~P[n].open
     /\ P[n].author = BOT_USER
     /\ TitleHas(P[n].title, package)
     /\ TitleHas(P[n].title, old_version)}

search_base_prs(P, package, old_version) ==
  {n \in 1..Len(P) :
     /\ P[n].open
     /\ P[n].author = BOT_USER
     /\ TitleHas(P[n].title, package)
     /\ TitleHas(P[n].title, old_version)}

\* FirstBase, without the test of the title: the first proposal found.
FirstItem(P, items, package, pre) == IF items = <<>> THEN 0 ELSE items[1]

\* next((pr for pr in items if pr.title.startswith(...)), None); 0 is None.
FirstBase(P, items, package, pre) ==
  LET hits == {i \in 1..Len(items) :
                 StartsWithWords(P[items[i]].title, <<package, ":", pre, "->">>)}
  IN IF hits = {} THEN 0
       ELSE items[CHOOSE i \in hits : \A j \in hits : i <= j]

\* The log lines nix-build may print.
\* The output of nix-build: a text whose lines end in "\n". Line k of a
\* drawn log is the k-th letter, so that lines can be told apart.
LineLetters ==
  <<"a", "b", "c", "d", "e", "f", "g", "h", "i", "j", "k", "l", "m",
    "n", "o", "p", "q", "r", "s", "t", "u", "v", "w", "x", "y", "z">>

RECURSIVE LogOf(_, _)
\* A log of n lines, the last one with or without its newline.
LogOf(n, newline) ==
  IF n = 0 THEN <<>>
    ELSE LogOf(n - 1, TRUE) \o <<LineLetters[((n - 1) % 26) + 1]>>
           \o (IF newline THEN <<"\n">> ELSE <<>>)

BuildLogs == {LogOf(0, FALSE), LogOf(2, TRUE)}

MaxLogLines == 17

\* Logs around the length the failure report cuts at, and one that ends in
\* an empty line.
LongBuildLogs ==
  {LogOf(n, nl) : n \in 0..MaxLogLines, nl \in BOOLEAN}
    \cup {LogOf(MaxLogLines, TRUE) \o <<"\n">>}

AbbreviatedLines == 15

RECURSIVE splitlines(_)
\* str.splitlines() on a text whose only line boundary is "\n": the lines
\* without their newlines; a newline at the very end opens no further line.
splitlines(text) ==
  IF text = <<>> THEN <<>>
    ELSE LET k == Find(text, <<"\n">>) IN
         IF k = 0 THEN <<text>>
           ELSE <<SubSeq(text, 1, k - 1)>>
                  \o splitlines(SubSeq(text, k + 1, Len(text)))

RECURSIVE join(_, _)
\* sep.join(lines)
join(sep, lines) ==
  IF lines = <<>> THEN <<>>
    ELSE IF Len(lines) = 1 THEN lines[1]
    ELSE lines[1] \o sep \o join(sep, Tail(lines))

\* Abbreviated, cut one line short.
AbbreviatedOneShort(log) ==
  LET lines == splitlines(log) IN
  join(<<"\n">>,
       IF Len(lines) < AbbreviatedLines THEN lines
         ELSE SubSeq(lines, Len(lines) - AbbreviatedLines + 2, Len(lines)))

\* "\n".join(build_log.splitlines()[-15:])
Abbreviated(log) ==
  LET lines == splitlines(log) IN
  join(<<"\n">>,
       IF Len(lines) <= AbbreviatedLines THEN lines
         ELSE SubSeq(lines, Len(lines) - AbbreviatedLines + 1, Len(lines)))

\* The comment posted after a successful build: the literal pieces of the
\* text, with the log's characters between them ("~~~" is the code fence).
SuccessBody(log) ==
  <<"nix-build was successful! Marking this PR as ready for review.\n\n",
    "<details>\n<summary>Complete build log</summary>\n\n",
    "~~~\n", "> nix-build -A pkg\n">> \o log \o <<"\n", "~~~\n", "</details>\n">>

\* The comment posted after a failed build.
FailureBody(log) ==
  <<"nix-build failed. Leaving this PR as a draft for now.\n\n",
    "Abbreviated log:\n", "~~~\n", "> nix-build -A pkg\n", "...\n">>
    \o Abbreviated(log)
    \o <<"\n", "~~~\n\n",
         "<details>\n<summary>Complete build log</summary>\n\n",
         "~~~\n", "> nix-build -A pkg\n">> \o log \o <<"\n", "~~~\n", "</details>\n">>

\* Stopped, with the failure of a command or call swallowed: the process ends
\* with status 0 whatever happened.
StoppedQuietly(rr, exit, result) ==
  [rr EXCEPT !.pc = "done", !.exit = "0", !.result = result]

\* A run that stops: sys.exit(ret), an uncaught exception, or a return.
Stopped(rr, exit, result) ==
  [rr EXCEPT !.pc = "done", !.exit = exit, !.result = result]

\* Returned, with sys.exit(1) in the place of return.
ReturnedWithError(rr, result) == Stopped(rr, "1", result)

\* A clean early `return` of main(): the process exits with status 0.
Returned(rr, result) == Stopped(rr, "0", result)

Called(rr, op, n, ref) == Append(rr.events, Event(op, n, ref))

\* ------------------------------------------------------------ main()
\* The process starts: the environment is read and the diff of the updater checked.
Start(r, P) ==
  /\ run[r].pc = "idle"
  /\ started < MaxRuns
  /\ \E pre \in P, dirty \in BOOLEAN :
       LET rr == [run[r] EXCEPT !.n = started + 1, !.pre = pre,
                                !.prs0 = prs, !.fork0 = fork]
       IN run' = [run EXCEPT ![r] =
                    IF dirty THEN [rr EXCEPT !.pc = "eval"]
                      ELSE Returned(rr, "no_diff")]
  /\ started' = started + 1
  /\ UNCHANGED <<prs, fork, probe>>

\* new_version = nix_instantiate_eval(...), which raises when nix fails.
EvalVersion(r, N) ==
  /\ run[r].pc = "eval"
  /\ \/ run' = [run EXCEPT ![r] = Stopped(@, "1", "eval_failed")]
     \/ \E v \in N :
          run' = [run EXCEPT ![r] = [@ EXCEPT !.pc = "gate", !.new_version = v]]
  /\ UNCHANGED <<prs, fork, started, probe>>

\* if not semver_is_upgrade(PRE_VERSION, new_version): return
VersionGate(r) ==
  LET rr == run[r] IN
  /\ rr.pc = "gate"
  /\ run' = [run EXCEPT ![r] =
       IF semver_raises(rr.new_version, rr.pre)
         THEN Stopped(rr, "1", "ValueError")
         ELSE IF semver_is_upgrade(rr.pre, rr.new_version)
           THEN [rr EXCEPT !.pc = "dup"]
           ELSE Returned(rr, "not_upgrade")]
  /\ UNCHANGED <<prs, fork, started, probe>>

\* prs = search_existing_prs(...); if prs.total_count > 0: return
DuplicateFinder(r) ==
  LET rr == run[r]
      found == search_existing_prs(prs, PACKAGE, rr.new_version)
      ev == Called(rr, "search_existing", 0, <<>>)
  IN
  /\ rr.pc = "dup"
  /\ \/ run' = [run EXCEPT ![r] = Stopped(rr, "1", "search_existing_failed")]
     \/ run' = [run EXCEPT ![r] =
          IF found # {}
            THEN Returned([rr EXCEPT !.events = ev], "duplicate")
            ELSE [rr EXCEPT !.pc = "prepare", !.events = ev]]
  /\ UNCHANGED <<prs, fork, started, probe>>

\* git config, fetch, remote add, switch, switch -c branch, add, commit, and
\* the proposal body composed.
PrepareCommit(r) ==
  LET rr == run[r] IN
  /\ rr.pc = "prepare"
  /\ \/ run' = [run EXCEPT ![r] = Stopped(rr, "1", "git_failed")]
     \/ run' = [run EXCEPT ![r] =
          [rr EXCEPT !.pc = "locate",
                     !.branch = BranchName(PACKAGE, rr.new_version),
                     !.commit = <<Commit(rr.n, "commit", rr.pre, rr.new_version)>>]]
  /\ UNCHANGED <<prs, fork, started, probe>>

\* prs = search_base_prs(...); base_pr = next(..., None)
LocateBase(r) ==
  LET rr == run[r] IN
  /\ rr.pc = "locate"
  /\ \/ run' = [run EXCEPT ![r] = Stopped(rr, "1", "search_base_failed")]
     \/ \E items \in Orderings(search_base_prs(prs, PACKAGE, rr.pre)) :
          LET base == FirstBase(prs, items, PACKAGE, rr.pre) IN
          run' = [run EXCEPT ![r] =
            [rr EXCEPT !.pc = IF base # 0 THEN "get" ELSE "push_new",
                       !.items = items, !.base_pr = base,
                       !.events = Called(rr, "search_base", 0, <<>>)]]
  /\ UNCHANGED <<prs, fork, started, probe>>

\* resp = gh.rest.pulls.get(...); pr = resp.parsed_data
GetBase(r) ==
  LET rr == run[r]
      n == rr.base_pr
  IN
  /\ rr.pc = "get"
  /\ \/ run' = [run EXCEPT ![r] = Stopped(rr, "1", "api_failed")]
     \/ run' = [run EXCEPT ![r] =
          [rr EXCEPT !.pc = "fetch",
                     !.pr = [number |-> n, head |-> prs[n].head, body |-> prs[n].body],
                     !.events = Called(rr, "get", n, <<>>)]]
  /\ UNCHANGED <<prs, fork, started, probe>>

\* git fetch fork base_branch; git switch base_branch; base_version = ...
\* The fetch fails when the fork has no such branch.  The switch lands on
\* the branch fetched, unless the run's own new branch has that very name:
\* then the working tree stays on the new branch.
FetchHead(r) ==
  LET rr == run[r]
      H == rr.pr.head
      tip == IF H = rr.branch THEN rr.commit ELSE fork[H]
  IN
  /\ rr.pc = "fetch"
  /\ \/ run' = [run EXCEPT ![r] =
          Stopped(rr, "1", IF fork[H] = <<>> THEN "fetch_missing" ELSE "git_failed")]
     \/ /\ fork[H] # <<>>
        /\ run' = [run EXCEPT ![r] =
             [rr EXCEPT !.pc = "pick", !.local = tip,
                        !.base_version = Last(tip).tree,
                        !.events = Called(rr, "fetch", 0, H)]]
  /\ UNCHANGED <<prs, fork, started, probe>>

\* Picked, without the amend: the commit keeps the message it had on the
\* run's own branch.
PickedNotAmended(rr) == Commit(rr.n, "pick", rr.pre, rr.new_version)

\* The commit git cherry-pick leaves on the base branch, its message amended.
Picked(rr) == Commit(rr.n, "pick", rr.base_version, rr.new_version)

\* git cherry-pick --strategy-option=theirs branch; git commit --amend -m ...
\* The cherry-pick stops with an error when it changes nothing.
CherryPick(r) ==
  LET rr == run[r] IN
  /\ rr.pc = "pick"
  /\ \/ run' = [run EXCEPT ![r] =
          Stopped(rr, "1", IF Last(rr.local).tree = rr.commit[1].tree
                             THEN "cherry_pick_empty" ELSE "git_failed")]
     \/ /\ Last(rr.local).tree # rr.commit[1].tree
        /\ run' = [run EXCEPT ![r] =
             [rr EXCEPT !.pc = "push_base", !.local = Append(rr.local, Picked(rr))]]
  /\ UNCHANGED <<prs, fork, started, probe>>

\* git push --set-upstream fork base_branch: rejected unless fast-forward.
PushBase(r) ==
  LET rr == run[r]
      H == rr.pr.head
  IN
  /\ rr.pc = "push_base"
  /\ \/ /\ run' = [run EXCEPT ![r] =
             Stopped(rr, "1", IF FastForward(fork[H], rr.local)
                                THEN "git_failed" ELSE "push_rejected")]
        /\ UNCHANGED fork
     \/ /\ FastForward(fork[H], rr.local)
        /\ fork' = [fork EXCEPT ![H] = rr.local]
        /\ run' = [run EXCEPT ![r] =
             [rr EXCEPT !.pc = "update", !.events = Called(rr, "push", 0, H)]]
  /\ UNCHANGED <<prs, started, probe>>

\* The template block of the rewritten body:
\* extract_template(pr.body) or pr_template
CarriedTemplate(body) == OrElse(extract_template(body), DefaultTemplate)

\* Updated, with the title left as it was.
UpdatedBodyOnly(p, title, body) == [p EXCEPT !.body = body]

\* Updated, with the draft flag of a new proposal passed along.
UpdatedAsDraft(p, title, body) ==
  [p EXCEPT !.title = title, !.body = body, !.isDraft = TRUE]

\* The proposal after gh.rest.pulls.update(title=..., body=...).
Updated(p, title, body) == [p EXCEPT !.title = title, !.body = body]

\* gh.rest.pulls.update(...); extract_template raises on a null body.
UpdateProposal(r) ==
  LET rr == run[r]
      n == rr.base_pr
  IN
  /\ rr.pc = "update"
  /\ \/ /\ run' = [run EXCEPT ![r] =
               Stopped(rr, "1", IF rr.pr.body = None THEN "AttributeError"
                                                     ELSE "api_failed")]
        /\ UNCHANGED prs
     \/ /\ rr.pr.body # None
        /\ prs' = [prs EXCEPT ![n] =
             Updated(@, TitleOf(PACKAGE, rr.pre, rr.new_version),
                     make_body(Summary(rr.pre, rr.new_version),
                               CarriedTemplate(rr.pr.body)))]
        /\ run' = [run EXCEPT ![r] =
             [rr EXCEPT !.pc = "build", !.events = Called(rr, "update", n, <<>>)]]
  /\ UNCHANGED <<fork, started, probe>>

\* git push --set-upstream fork branch: rejected when the fork already has
\* a branch of that name, whose commit is another one.
PushNew(r) ==
  LET rr == run[r] IN
  /\ rr.pc = "push_new"
  /\ \/ /\ run' = [run EXCEPT ![r] =
             Stopped(rr, "1", IF FastForward(fork[rr.branch], rr.commit)
                                THEN "git_failed" ELSE "push_rejected")]
        /\ UNCHANGED fork
     \/ /\ FastForward(fork[rr.branch], rr.commit)
        /\ fork' = [fork EXCEPT ![rr.branch] = rr.commit]
        /\ run' = [run EXCEPT ![r] =
             [rr EXCEPT !.pc = "create", !.events = Called(rr, "push", 0, rr.branch)]]
  /\ UNCHANGED <<prs, started, probe>>

\* Created, with draft=True left out.
CreatedNotDraft(rr) ==
  Proposal(TitleOf(PACKAGE, rr.pre, rr.new_version), BOT_USER, rr.branch, FALSE, TRUE,
           make_body(Summary(rr.pre, rr.new_version), DefaultTemplate))

\* The proposal gh.rest.pulls.create(...) makes.
Created(rr) ==
  Proposal(TitleOf(PACKAGE, rr.pre, rr.new_version), BOT_USER, rr.branch, TRUE, TRUE,
           make_body(Summary(rr.pre, rr.new_version), DefaultTemplate))

\* The bot has an open proposal from this head branch already.
HeadTaken(P, branch) ==
  \E n \in 1..Len(P) : P[n].open /\ P[n].author = BOT_USER /\ P[n].head = branch

\* gh.rest.pulls.create(...): refused when the head already has an open
\* proposal.
CreateProposal(r) ==
  LET rr == run[r] IN
  /\ rr.pc = "create"
  /\ \/ /\ run' = [run EXCEPT ![r] =
             Stopped(rr, "1", IF HeadTaken(prs, rr.branch)
                                THEN "create_refused" ELSE "api_failed")]
        /\ UNCHANGED prs
     \/ /\ ~HeadTaken(prs, rr.branch)
        /\ prs' = Append(prs, Created(rr))
        /\ run' = [run EXCEPT ![r] =
             [rr EXCEPT !.pc = "build",
                        !.pr = [number |-> Len(prs) + 1, head |-> rr.branch,
                                body |-> Created(rr).body],
                        !.events = Called(rr, "create", Len(prs) + 1, rr.branch)]]
  /\ UNCHANGED <<fork, started, probe>>

\* build_succeeded, build_log = nix_build(PACKAGE)
Build(r, L) ==
  LET rr == run[r] IN
  /\ rr.pc = "build"
  /\ \E ok \in BOOLEAN, log \in L :
       run' = [run EXCEPT ![r] =
         [rr EXCEPT !.pc = "comment", !.build_succeeded = ok, !.build_log = log,
                    !.events = Called(rr, "build", 0, <<>>)]]
  /\ UNCHANGED <<prs, fork, started, probe>>

\* Report, with the success text on both branches.
ReportAlwaysSuccess(succeeded, log) == SuccessBody(log)

\* The body of the report comment.
Report(succeeded, log) == IF succeeded THEN SuccessBody(log) ELSE FailureBody(log)

\* AfterComment, with the branches swapped.
AfterCommentSwapped(succeeded) == IF succeeded THEN "return" ELSE "ready"

\* AfterComment, with the transition outside the if.
AfterCommentAlwaysReady(succeeded) == "ready"

\* Where main() goes after the comment was posted.
AfterComment(succeeded) == IF succeeded THEN "ready" ELSE "return"

\* PostComment, with a failure of the call passed over: the run goes on as
\* if the comment had been posted.
PostCommentUnchecked(r) ==
  LET rr == run[r]
      n == rr.pr.number
      ev == Called(rr, "comment", n, <<>>)
  IN
  /\ rr.pc = "comment"
  /\ \/ /\ run' = [run EXCEPT ![r] =
             IF AfterComment(rr.build_succeeded) = "ready"
               THEN [rr EXCEPT !.pc = "ready"]
               ELSE Returned(rr, "completed")]
        /\ UNCHANGED prs
     \/ /\ prs' = [prs EXCEPT ![n].comments =
                     Append(@, Report(rr.build_succeeded, rr.build_log))]
        /\ run' = [run EXCEPT ![r] =
             IF AfterComment(rr.build_succeeded) = "ready"
               THEN [rr EXCEPT !.pc = "ready", !.events = ev]
               ELSE Returned([rr EXCEPT !.events = ev], "completed")]
  /\ UNCHANGED <<fork, started, probe>>

\* gh.rest.issues.create_comment(issue_number=pr.number, body=body)
PostComment(r) ==
  LET rr == run[r]
      n == rr.pr.number
      ev == Called(rr, "comment", n, <<>>)
  IN
  /\ rr.pc = "comment"
  /\ \/ /\ run' = [run EXCEPT ![r] = Stopped(rr, "1", "api_failed")]
        /\ UNCHANGED prs
     \/ /\ prs' = [prs EXCEPT ![n].comments =
                     Append(@, Report(rr.build_succeeded, rr.build_log))]
        /\ run' = [run EXCEPT ![r] =
             IF AfterComment(rr.build_succeeded) = "ready"
               THEN [rr EXCEPT !.pc = "ready", !.events = ev]
               ELSE Returned([rr EXCEPT !.events = ev], "completed")]
  /\ UNCHANGED <<fork, started, probe>>

\* The proposal after markPullRequestReadyForReview.
Readied(p) == [p EXCEPT !.isDraft = FALSE]

\* gh.graphql(markPullRequestReadyForReview, {"pr": pr.node_id})
MarkReady(r) ==
  LET rr == run[r]
      n == rr.pr.number
  IN
  /\ rr.pc = "ready"
  /\ \/ /\ run' = [run EXCEPT ![r] = Stopped(rr, "1", "api_failed")]
        /\ UNCHANGED prs
     \/ /\ prs' = [prs EXCEPT ![n] = Readied(@)]
        /\ run' = [run EXCEPT ![r] =
             Returned([rr EXCEPT !.events = Called(rr, "ready", n, <<>>)],
                      "completed")]
  /\ UNCHANGED <<fork, started, probe>>

\* The process is gone; the next scheduled run starts afresh.
Exit(r) ==
  /\ run[r].pc = "done"
  /\ run' = [run EXCEPT ![r] = IdleRun]
  /\ UNCHANGED <<prs, fork, started, probe>>

\* One step of process r: its previous version drawn from P, the version it
\* observes from N, its build log from L.
Step(r, P, N, L) ==
  \/ Start(r, P) \/ EvalVersion(r, N) \/ VersionGate(r) \/ DuplicateFinder(r)
  \/ PrepareCommit(r) \/ LocateBase(r)
  \/ GetBase(r) \/ FetchHead(r) \/ CherryPick(r) \/ PushBase(r) \/ UpdateProposal(r)
  \/ PushNew(r) \/ CreateProposal(r)
  \/ Build(r, L) \/ PostComment(r) \/ MarkReady(r) \/ Exit(r)

\* Runs one after another, as the invoking scheduler arranges them.
Next == Step(1, CoreVersions, CoreVersions, BuildLogs)

Spec == Init /\ [][Next]_vars

\* The same runs over every version string, starting from no proposal.
InitGate == Init /\ prs = <<>>

NextGate == Step(1, Versions, Versions, {<<>>})

SpecGate == InitGate /\ [][NextGate]_vars

\* Proposals among which a run for previousVersion 1.0.0 has to choose: two of
\* the bot that begin "pkg: 1.0.0 -> " on different heads, one of the bot
\* with package and version elsewhere in its title, one of another author
\* with the very title, and a closed one of the bot.
SelectCandidates ==
  { Proposal(TitleOf(PACKAGE, "1.0.0", "1.1.0"), BOT_USER,
             BranchName(PACKAGE, "1.1.0"), TRUE, TRUE, StdBody),
    Proposal(TitleOf(PACKAGE, "1.0.0", "1.1.0-rc"), BOT_USER,
             BranchName(PACKAGE, "1.1.0-rc"), TRUE, TRUE, HumanBody),
    Proposal(TitleOf(PACKAGE, "0.9.0", "1.0.0"), BOT_USER,
             BranchName(PACKAGE, "1.0.0"), TRUE, TRUE, StdBody),
    Proposal(TitleOf(PACKAGE, "1.0.0", "1.1.0"), "alice",
             BranchName(PACKAGE, "1.1.0"), TRUE, TRUE, NoMarkerBody),
    Proposal(TitleOf(PACKAGE, "1.0.0", "1.1.0+b"), BOT_USER,
             BranchName(PACKAGE, "1.1.0+b"), TRUE, FALSE, StdBody) }

MaxSelectPrs == 3

\* Two or more of these proposals, in any order of their numbers.
InitSelect ==
  /\ prs \in UNION {[1..k -> SelectCandidates] : k \in 2..MaxSelectPrs}
  /\ \A i, j \in 1..Len(prs) : prs[i] = prs[j] => i = j
  /\ fork = [b \in Branches |->
               IF \E i \in 1..Len(prs) : prs[i].author = BOT_USER /\ prs[i].head = b
                 THEN <<Commit(0, "commit", "1.0.0", b[2])>>
                 ELSE <<>>]
  /\ run = [r \in Procs |-> IdleRun]
  /\ started = 0
  /\ probe = IdleProbe

NextSelect == Step(1, {"1.0.0"}, {"1.2.0"}, {<<>>})

SpecSelect == InitSelect /\ [][NextSelect]_vars

\* One package, two upgrades of it and no proposal to begin with; the build
\* log is any of the long logs.
NextReport == Step(1, {"1.0.0"}, {"1.1.0", "1.2.0"}, LongBuildLogs)

SpecReport == InitGate /\ [][NextReport]_vars

\* Two invocations of the script for the same package at once: nothing in the
\* script takes a lock, so their steps interleave freely.
ConcurrentPre == {"1.0.0"}
ConcurrentNew == {"1.1.0", "1.2.0"}

NextConcurrent ==
  \E r \in Procs : Step(r, ConcurrentPre, ConcurrentNew, {<<>>})

\* They start with no proposal, or with one open draft of the bot.
InitConcurrent ==
  /\ Init
  /\ \A n \in 1..Len(prs) :
       prs[n] = Proposal(TitleOf(PACKAGE, "1.0.0", "1.1.0"), BOT_USER,
                         BranchName(PACKAGE, "1.1.0"), TRUE, TRUE, StdBody)

SpecConcurrent == InitConcurrent /\ [][NextConcurrent]_vars

\* ------------------------------------------- the body functions on their own
\* The characters bodies and summaries are drawn from: a letter, the two kinds
\* of whitespace, and the two characters of the marker.
Alphabet == {"s", " ", "\n", "<", ">"}

MaxBodyLen == 4
MaxSummaryLen == 1

TextsUpTo(k) == UNION {[1..j -> Alphabet] : j \in 0..k}

\* A proposal body S as found on the hosting service and a summary X.
InitTemplate ==
  /\ prs = <<>>
  /\ fork = [b \in Branches |-> <<>>]
  /\ run = [r \in Procs |-> IdleRun]
  /\ started = 0
  /\ \E S \in TextsUpTo(MaxBodyLen), X \in TextsUpTo(MaxSummaryLen) :
       probe = [IdleProbe EXCEPT !.pc = "input", !.S = S, !.X = X]

\* extract_template(pr.body)
ProbeExtract ==
  /\ probe.pc = "input"
  /\ probe' = [probe EXCEPT !.pc = "extracted", !.T = extract_template(probe.S)]
  /\ UNCHANGED <<prs, fork, run, started>>

\* make_body(body, template) with the extracted block
ProbeMakeBody ==
  /\ probe.pc = "extracted"
  /\ probe.T # None
  /\ probe' = [probe EXCEPT !.pc = "rebuilt", !.B = make_body(probe.X, probe.T)]
  /\ UNCHANGED <<prs, fork, run, started>>

\* extract_template on the rebuilt body
ProbeReextract ==
  /\ probe.pc = "rebuilt"
  /\ probe' = [probe EXCEPT !.pc = "reextracted", !.out = extract_template(probe.B)]
  /\ UNCHANGED <<prs, fork, run, started>>

NextTemplate == ProbeExtract \/ ProbeMakeBody \/ ProbeReextract

SpecTemplate == InitTemplate /\ [][NextTemplate]_vars

\* ------------------------------------------------------------ properties
\* The calls of kind op a run has made.
CallsOf(rr, op) == {i \in 1..Len(rr.events) : rr.events[i].op = op}

Made(rr, op) == CallsOf(rr, op) # {}

\* The run has left the Branch Reconciler with its proposal written.
Reconciled(rr) == Made(rr, "create") \/ Made(rr, "update")

\* The open proposals of P by the bot whose title begins
\* "{package}: {pre} -> ".
BasesIn(P, package, pre) ==
  {n \in 1..Len(P) :
     /\ P[n].open
     /\ P[n].author = BOT_USER
     /\ Len(P[n].title) > 4
     /\ P[n].title[1] = package /\ P[n].title[2] = ":"
     /\ P[n].title[3] = pre /\ P[n].title[4] = "->"}

\* The proposals of P other than n are in Q as they are in P.
OthersKept(P, Q, n) ==
  \A m \in 1..Len(P) : m # n => (m <= Len(Q) /\ Q[m] = P[m])

\* C1 (as stated): with an open bot proposal titled "pkg: 1.0.0 -> 1.1.0",
\* a run for (pkg, 1.1.0, 1.2.0) that has written its proposal created none
\* and left that proposal, number unchanged, titled "pkg: 1.1.0 -> 1.2.0".
C1_TransplantFrom110 ==
  \A r \in Procs :
    LET rr == run[r] IN
    (rr.pre = "1.1.0" /\ rr.new_version = "1.2.0" /\ Reconciled(rr)) =>
      \A n \in 1..Len(rr.prs0) :
        (/\ rr.prs0[n].open /\ rr.prs0[n].author = BOT_USER
         /\ rr.prs0[n].title = TitleOf(PACKAGE, "1.0.0", "1.1.0")) =>
          /\ ~Made(rr, "create")
          /\ Len(prs) = Len(rr.prs0)
          /\ prs[n].title = TitleOf(PACKAGE, "1.1.0", "1.2.0")

\* C1 (amended): with an open bot proposal titled "pkg: 1.0.0 -> 1.1.0", the
\* only one whose title begins "pkg: 1.0.0 -> ", a run for (pkg, 1.0.0, 1.2.0)
\* takes the transplant path: once it has written its proposal it has created
\* none, and that proposal, number unchanged, is titled "pkg: 1.0.0 -> 1.2.0".
C1_TransplantFrom100 ==
  \A r \in Procs :
    LET rr == run[r] IN
    (rr.pre = "1.0.0" /\ rr.new_version = "1.2.0") =>
      \A n \in 1..Len(rr.prs0) :
        (/\ BasesIn(rr.prs0, PACKAGE, "1.0.0") = {n}
         /\ rr.prs0[n].title = TitleOf(PACKAGE, "1.0.0", "1.1.0")) =>
          /\ ~Made(rr, "create")
          /\ Len(prs) = Len(rr.prs0)
          /\ rr.pc \in {"get", "fetch", "pick", "push_base", "update", "build",
                        "comment", "ready"} => rr.base_pr = n
          /\ Reconciled(rr) =>
               /\ rr.pr.number = n
               /\ prs[n].title = TitleOf(PACKAGE, "1.0.0", "1.2.0")
               /\ prs[n].head = rr.prs0[n].head

C1_Witness ==
  \E r \in Procs :
    LET rr == run[r] IN
    /\ rr.pre = "1.0.0" /\ rr.new_version = "1.2.0"
    /\ rr.pc = "build" /\ Made(rr, "update")
    /\ rr.base_pr # 0
    /\ rr.prs0[rr.base_pr].title = TitleOf(PACKAGE, "1.0.0", "1.1.0")
    /\ prs[rr.base_pr].title = TitleOf(PACKAGE, "1.0.0", "1.2.0")

\* The kinds of the calls a run has made that change the fork or a proposal,
\* and of its build, in order.
IsEffect(e) == e.op \in {"push", "create", "update", "build", "comment", "ready"}

Effects(rr) == SelectSeq(rr.events, IsEffect)

EffectOps(rr) == [i \in 1..Len(Effects(rr)) |-> Effects(rr)[i].op]

\* C2: a run that found no open bot proposal whose title begins
\* "{package}: {previousVersion} -> " never gets or updates a proposal; it
\* pushes branch "{package}-{newVersion}" first and then creates one proposal:
\* the next number, titled "{package}: {previousVersion} -> {newVersion}",
\* base the target branch, head that branch, a draft until the run itself
\* marks it ready.
C2_FreshPath ==
  \A r \in Procs :
    LET rr == run[r]
        b == BranchName(PACKAGE, rr.new_version)
        n == Len(rr.prs0) + 1
    IN
    (Made(rr, "search_base") /\ BasesIn(rr.prs0, PACKAGE, rr.pre) = {}) =>
      /\ rr.base_pr = 0
      /\ ~Made(rr, "get") /\ ~Made(rr, "update")
      /\ \A m \in 1..Len(rr.prs0) : prs[m] = rr.prs0[m]
      /\ IsPrefix(EffectOps(rr), <<"push", "create", "build", "comment", "ready">>)
      /\ Made(rr, "push") =>
           /\ Effects(rr)[1].ref = b
           /\ fork[b] = rr.commit
      /\ ~Made(rr, "create") => Len(prs) = Len(rr.prs0)
      /\ Made(rr, "create") =>
           /\ Len(prs) = n
           /\ rr.pr.number = n
           /\ prs[n].title = TitleOf(PACKAGE, rr.pre, rr.new_version)
           /\ prs[n].base = TARGET_BRANCH
           /\ prs[n].head = b
           /\ prs[n].author = BOT_USER
           /\ prs[n].open
           /\ ~Made(rr, "ready") => prs[n].isDraft

C2_Witness ==
  \E r \in Procs :
    LET rr == run[r] IN
    /\ rr.pc = "build"
    /\ BasesIn(rr.prs0, PACKAGE, rr.pre) = {}
    /\ Made(rr, "create")
    /\ Len(prs) = Len(rr.prs0) + 1
    /\ prs[Len(prs)].isDraft

\* C3: a run that found a base proposal creates none and recreates none:
\* the proposals keep their numbers, every other proposal is untouched, the
\* base proposal keeps its head, base, author and open state, its draft flag
\* until the run marks it ready, and its title and body until the update,
\* which sets the title to "{package}: {previousVersion} -> {newVersion}";
\* the comment and the ready transition go to that same number.
C3_MutatedNotRecreated ==
  \A r \in Procs :
    LET rr == run[r]
        n == rr.base_pr
    IN
    n # 0 =>
      /\ ~Made(rr, "create")
      /\ Len(prs) = Len(rr.prs0)
      /\ OthersKept(rr.prs0, prs, n)
      /\ prs[n].head = rr.prs0[n].head
      /\ prs[n].base = rr.prs0[n].base
      /\ prs[n].author = rr.prs0[n].author
      /\ prs[n].open = rr.prs0[n].open
      /\ ~Made(rr, "ready") => prs[n].isDraft = rr.prs0[n].isDraft
      /\ ~Made(rr, "comment") => prs[n].comments = rr.prs0[n].comments
      /\ IF Made(rr, "update")
           THEN /\ prs[n].title = TitleOf(PACKAGE, rr.pre, rr.new_version)
                /\ rr.pr.number = n
           ELSE /\ prs[n].title = rr.prs0[n].title
                /\ prs[n].body = rr.prs0[n].body
      /\ \A i \in 1..Len(rr.events) :
           rr.events[i].op \in {"get", "update", "comment", "ready"}
             => rr.events[i].n = n

C3_Witness ==
  \E r \in Procs :
    LET rr == run[r] IN
    /\ rr.base_pr # 0
    /\ rr.pc = "done" /\ rr.result = "completed"
    /\ Made(rr, "update") /\ Made(rr, "ready")
    /\ rr.prs0[rr.base_pr].isDraft
    /\ ~prs[rr.base_pr].isDraft

\* The precedence of the version strings as the semantic-versioning rules
\* give it, written out: equal numbers are equal precedence, and "1.1" is no
\* semantic version.
Precedence(v) ==
  CASE v = "1.0.0" -> 1
    [] v = "1.1.0-rc" -> 2
    [] v = "1.1.0" -> 3
    [] v = "1.1.0+b" -> 3
    [] v = "1.2.0" -> 4
    [] v = "1.10.0" -> 5

Malformed == {"1.1"}

StrictlyGreater(new, old) ==
  /\ new \notin Malformed
  /\ old \notin Malformed
  /\ Precedence(new) > Precedence(old)

\* The run has evaluated the Version Gate.
GateDecided(rr) ==
  /\ rr.pc \notin {"idle", "eval", "gate"}
  /\ rr.result \notin {"no_diff", "eval_failed"}

StoppedAtGate(rr) == rr.pc = "done" /\ rr.result \in {"not_upgrade", "ValueError"}

\* C4: once the Version Gate has decided, the run goes on exactly when
\* newVersion is strictly greater than previousVersion in semantic-version
\* precedence; otherwise (equal, lesser, malformed) it has stopped without
\* one call made and with the proposals and the fork as they were, a
\* malformed version ending it with an error.
C4_VersionGate ==
  \A r \in Procs :
    LET rr == run[r] IN
    GateDecided(rr) =>
      /\ ~StoppedAtGate(rr) <=> StrictlyGreater(rr.new_version, rr.pre)
      /\ StoppedAtGate(rr) =>
           /\ rr.events = <<>>
           /\ prs = rr.prs0 /\ fork = rr.fork0
           /\ rr.result = "ValueError" <=>
                (rr.new_version \in Malformed \/ rr.pre \in Malformed)
           /\ rr.result = "ValueError" => rr.exit = "1"

C4_Witness ==
  \E r \in Procs :
    LET rr == run[r] IN
    /\ rr.pre = "1.2.0" /\ rr.new_version = "1.10.0"
    /\ Made(rr, "search_existing")
    /\ started = 2

\* The open proposals of P, of any author, whose title has both words.
TitledWithBoth(P, package, version) ==
  {n \in 1..Len(P) :
     /\ P[n].open
     /\ \E i \in 1..Len(P[n].title) : P[n].title[i] = package
     /\ \E i \in 1..Len(P[n].title) : P[n].title[i] = version}

\* C5: once the Duplicate Finder has searched, the run goes on exactly when
\* no open proposal, of any author, has package and newVersion in its title;
\* when one has, the run has stopped with nothing but that search made.
C5_DuplicateFinder ==
  \A r \in Procs :
    LET rr == run[r]
        dups == TitledWithBoth(rr.prs0, PACKAGE, rr.new_version)
    IN
    Made(rr, "search_existing") =>
      /\ (rr.pc = "done" /\ rr.result = "duplicate") <=> dups # {}
      /\ dups # {} =>
           /\ Len(rr.events) = 1
           /\ rr.branch = <<>> /\ rr.commit = <<>>
           /\ prs = rr.prs0 /\ fork = rr.fork0

C5_Witness ==
  \E r \in Procs :
    LET rr == run[r] IN
    /\ rr.pc = "done" /\ rr.result = "duplicate"
    /\ \E n \in TitledWithBoth(rr.prs0, PACKAGE, rr.new_version) :
         rr.prs0[n].author # BOT_USER

\* C6: a run that ended at a no-op condition (not an upgrade, or a duplicate
\* found) pushed nothing, created and updated no proposal, posted no comment,
\* issued no ready transition, left the proposals and the fork as they were,
\* and exited with status 0.
C6_NoOpMutatesNothing ==
  \A r \in Procs :
    LET rr == run[r] IN
    (rr.pc = "done" /\ rr.result \in {"not_upgrade", "duplicate"}) =>
      /\ Effects(rr) = <<>>
      /\ prs = rr.prs0 /\ fork = rr.fork0
      /\ rr.exit = "0"

C6_Witness ==
  \E r \in Procs :
    LET rr == run[r] IN
    /\ rr.pc = "done" /\ rr.result = "duplicate" /\ rr.exit = "0"
    /\ rr.n = 2
    /\ Len(prs) > 0 /\ prs[Len(prs)].comments # <<>>

\* The run went through the Readiness Gate to its end.
Completed(rr) == rr.pc = "done" /\ rr.result = "completed"

\* The lines of log stand in body, together and in order.
HasLines(body, log) ==
  \E i \in 1..(Len(body) + 1) :
    /\ i + Len(log) - 1 <= Len(body)
    /\ SubSeq(body, i, i + Len(log) - 1) = log

\* The comments of proposal n before the run.
CommentsBefore(rr, n) ==
  IF n <= Len(rr.prs0) THEN rr.prs0[n].comments ELSE <<>>

\* C7: a run that completed with a successful build posted one comment on
\* its proposal, the success report with the whole build log in it, and then
\* issued the ready transition once, on that proposal, whatever its draft
\* flag was; the proposal is not a draft afterwards.
C7_ReadyOnSuccess ==
  \A r \in Procs :
    LET rr == run[r]
        n == rr.pr.number
    IN
    (Completed(rr) /\ rr.build_succeeded) =>
      /\ Cardinality(CallsOf(rr, "comment")) = 1
      /\ Cardinality(CallsOf(rr, "ready")) = 1
      /\ \A i \in CallsOf(rr, "comment") \cup CallsOf(rr, "ready") :
           rr.events[i].n = n
      /\ \A i \in CallsOf(rr, "comment"), j \in CallsOf(rr, "ready") : i < j
      /\ prs[n].comments = Append(CommentsBefore(rr, n), SuccessBody(rr.build_log))
      /\ HasLines(Last(prs[n].comments), rr.build_log)
      /\ ~prs[n].isDraft

C7_Witness ==
  \E r \in Procs :
    LET rr == run[r] IN
    /\ Completed(rr) /\ rr.build_succeeded
    /\ rr.build_log # <<>>
    /\ rr.base_pr # 0
    /\ ~rr.prs0[rr.base_pr].isDraft
    /\ ~prs[rr.base_pr].isDraft

\* The draft flag of the run's proposal when the Readiness Gate began.
DraftBefore(rr) ==
  IF rr.base_pr # 0 THEN rr.prs0[rr.base_pr].isDraft ELSE TRUE

\* C8: a run whose build failed issues no ready transition, and from the
\* build on its proposal has the draft flag it had before the Readiness
\* Gate: a draft stays a draft, a ready proposal stays ready.
C8_UntouchedOnFailure ==
  \A r \in Procs :
    LET rr == run[r] IN
    (Made(rr, "build") /\ rr.pc # "build" /\ ~rr.build_succeeded) =>
      /\ ~Made(rr, "ready")
      /\ rr.pc # "ready"
      /\ prs[rr.pr.number].isDraft = DraftBefore(rr)

C8_Witness ==
  \E r \in Procs :
    LET rr == run[r] IN
    /\ Completed(rr) /\ ~rr.build_succeeded
    /\ rr.base_pr # 0
    /\ ~rr.prs0[rr.base_pr].isDraft
    /\ ~prs[rr.base_pr].isDraft
    /\ Len(prs[rr.base_pr].comments) = 1

\* C9: a run that completed made, in this order and nothing else that
\* changes the fork or a proposal: one push, one create or update, one
\* build, one comment, and after a successful build one ready transition;
\* the comment is on the proposal created or updated, and reports success
\* exactly when the build succeeded.
C9_OneBuildOneComment ==
  \A r \in Procs :
    LET rr == run[r]
        n == rr.pr.number
    IN
    Completed(rr) =>
      /\ EffectOps(rr) =
           <<"push", IF rr.base_pr # 0 THEN "update" ELSE "create", "build", "comment">>
             \o (IF rr.build_succeeded THEN <<"ready">> ELSE <<>>)
      /\ Effects(rr)[2].n = n
      /\ Effects(rr)[4].n = n
      /\ Effects(rr)[1].ref = prs[n].head
      /\ Len(prs[n].comments) = Len(CommentsBefore(rr, n)) + 1
      /\ Last(prs[n].comments) =
           IF rr.build_succeeded THEN SuccessBody(rr.build_log)
                                 ELSE FailureBody(rr.build_log)
      /\ \A m \in 1..Len(prs) : m # n => prs[m].comments = CommentsBefore(rr, m)

C9_Witness ==
  \E r \in Procs :
    LET rr == run[r] IN
    /\ Completed(rr) /\ ~rr.build_succeeded
    /\ rr.base_pr = 0
    /\ rr.build_log # <<>>
    /\ Last(prs[rr.pr.number].comments) = FailureBody(rr.build_log)

\* C10 (as stated): after the update of a base proposal whose body held the
\* marker, the template block of the new body is the block of the old body,
\* whatever the block; and the new body has the default template as its
\* block only when the old body held no marker.
C10_TemplateCarried ==
  \A r \in Procs :
    LET rr == run[r]
        old == rr.pr.body
        new == prs[rr.base_pr].body
    IN
    (rr.pc = "build" /\ Made(rr, "update")) =>
      IF Find(old, TEMPLATE_MARKER) # 0
        THEN extract_template(new) = extract_template(old)
        ELSE extract_template(new) = <<"\n", "\n">> \o Strip(DefaultTemplate)

\* C11: for every body S that contains the marker and every text X, extracting
\* the block of make_body(X, extract_template(S)) gives extract_template(S)
\* again.
C11_RoundTrip ==
  probe.pc = "reextracted" => probe.out = probe.T

\* The history new holds every commit of old, in place, and at most one more.
OneAhead(old, new) ==
  /\ Len(new) \in {Len(old), Len(old) + 1}
  /\ \A i \in 1..Len(old) : new[i] = old[i]

\* The run is on the transplant path and its push of H was accepted.
PushedBase(rr) == rr.base_pr # 0 /\ Made(rr, "push")

\* C12: no step drops a commit from a branch of the fork that proposals build
\* on: every step leaves each existing branch as it was or exactly one commit
\* ahead of its old tip; and once a transplant run has pushed H, H holds the
\* history the run fetched followed by the run's one cherry-picked commit.
C12_HistoryKept ==
  /\ [][\A b \in Branches : fork[b] # <<>> => OneAhead(fork[b], fork'[b])]_vars
  /\ [](\A r \in Procs :
         LET rr == run[r]
             H == rr.pr.head
         IN PushedBase(rr) =>
              /\ Len(rr.local) > 1
              /\ Len(fork[H]) >= Len(rr.local)
              /\ \A i \in 1..Len(rr.local) : fork[H][i] = rr.local[i]
              /\ rr.local[Len(rr.local)].run = rr.n
              /\ \A i \in 1..(Len(rr.local) - 1) : rr.local[i].run # rr.n)

\* A transplant run has just pushed onto a branch that held commits before it
\* started: the branch is one commit longer than at the start of the run.
C12_Witness ==
  \E r \in Procs :
    LET rr == run[r]
        H == rr.pr.head
    IN /\ PushedBase(rr)
       /\ rr.pc = "update"
       /\ rr.fork0[H] # <<>>
       /\ fork[H] = Append(rr.fork0[H], rr.local[Len(rr.local)])

\* The ways a step after the Version Gate fails: a git command that returns
\* non-zero, a call of the hosting service that raises.
FailedSteps ==
  {"search_existing_failed", "search_base_failed", "git_failed", "api_failed",
   "fetch_missing", "cherry_pick_empty", "push_rejected", "create_refused",
   "AttributeError"}

\* What the calls a run made have written is still there.
EffectsStand(rr) ==
  /\ \A i \in CallsOf(rr, "push") :
       \E k \in 1..Len(fork[rr.events[i].ref]) : fork[rr.events[i].ref][k].run = rr.n
  /\ \A i \in CallsOf(rr, "create") \cup CallsOf(rr, "update") :
       LET n == rr.events[i].n IN
       /\ n \in 1..Len(prs) /\ prs[n].open
       /\ prs[n].title = TitleOf(PACKAGE, rr.pre, rr.new_version)
  /\ \A i \in CallsOf(rr, "comment") :
       LET n == rr.events[i].n IN
       Len(prs[n].comments) = Len(CommentsBefore(rr, n)) + 1

\* C13: a run in which a step after the gates failed has stopped there with a
\* non-zero exit status: the calls it made are a proper beginning of the
\* sequence push, create or update, build, comment, ready, none was made
\* twice, what they wrote is still on the fork and the proposals, and the
\* stopped run does nothing more.
C13_FailureIsFatal ==
  /\ [](\A r \in Procs :
         LET rr == run[r]
             whole == <<"push", IF rr.base_pr # 0 THEN "update" ELSE "create",
                        "build", "comment", "ready">>
         IN rr.result \in FailedSteps =>
              /\ rr.pc = "done" /\ rr.exit = "1"
              /\ Len(EffectOps(rr)) < Len(whole)
              /\ EffectOps(rr) = SubSeq(whole, 1, Len(EffectOps(rr)))
              /\ \A i, j \in 1..Len(rr.events) :
                   rr.events[i].op = rr.events[j].op => i = j
              /\ EffectsStand(rr))
  /\ [][\A r \in Procs :
          run[r].pc = "done" =>
            /\ run'[r] \in {run[r], IdleRun}
            /\ run'[r] # run[r] => (prs' = prs /\ fork' = fork)]_vars

\* A run whose comment call failed after its push and its creation: branch
\* and proposal are still there, and no comment.
C13_Witness ==
  \E r \in Procs :
    LET rr == run[r] IN
    /\ rr.pc = "done" /\ rr.result = "api_failed" /\ rr.exit = "1"
    /\ EffectOps(rr) = <<"push", "create", "build">>
    /\ fork[rr.branch] = rr.commit
    /\ prs[rr.pr.number].comments = <<>>

\* The fork at the start of the run shows that an earlier run of this
\* sequence had the same package, previousVersion and newVersion and got as
\* far as a push: its commit is on the branch of newVersion, or its
\* cherry-picked commit is on the head of a proposal for previousVersion.
IsRerun(rr) ==
  \E b \in Branches : \E k \in 1..Len(rr.fork0[b]) :
    LET c == rr.fork0[b][k] IN
    /\ c.run \in 1..(rr.n - 1)
    /\ c.to = rr.new_version
    /\ \/ c.kind = "commit" /\ c.from = rr.pre
       \/ /\ c.kind = "pick"
          /\ \E n \in BasesIn(rr.prs0, PACKAGE, rr.pre) : rr.prs0[n].head = b

\* A failure that comes from outside the run's inputs and the state of fork
\* and proposals: the updater's output, a git command or a call that fails
\* although it could have gone through.
TransientFailures ==
  {"no_diff", "eval_failed", "search_existing_failed", "search_base_failed",
   "git_failed", "api_failed"}

\* The open proposals of the bot for exactly this upgrade.
ProposalsFor(P, package, pre, new) ==
  {n \in 1..Len(P) :
     P[n].open /\ P[n].author = BOT_USER /\ P[n].title = TitleOf(package, pre, new)}

\* C14 (as stated): when a run that repeats the inputs of an earlier run,
\* completed or aborted, has ended without a transient failure of its own,
\* there is exactly one open bot-authored proposal for the upgrade.
C14_RerunConverges ==
  \A r \in Procs :
    LET rr == run[r] IN
    (rr.pc = "done" /\ IsRerun(rr) /\ rr.result \notin TransientFailures) =>
      Cardinality(ProposalsFor(prs, PACKAGE, rr.pre, rr.new_version)) = 1

\* The run has cherry-picked its commit onto the history it fetched of H.
HasPicked(rr) ==
  /\ rr.base_pr # 0
  /\ Len(rr.local) > 1
  /\ rr.local[Len(rr.local)].run = rr.n

\* The history of H the run fetched.
Fetched(rr) == SubSeq(rr.local, 1, Len(rr.local) - 1)

\* Two runs at once have cherry-picked onto the same tip of the same head.
SameTip(a, b) ==
  /\ HasPicked(a) /\ HasPicked(b)
  /\ a.pr.head = b.pr.head
  /\ Fetched(a) = Fetched(b)

\* C15: nothing keeps two runs at once apart, the fork's fast-forward rule
\* aside: of two runs that cherry-picked onto the same tip of H at most one
\* has its push accepted, and a run whose push was rejected has stopped with
\* a non-zero status before any creation, update or comment; two runs that
\* both found no base proposal and both created one have made two proposals.
C15_NoLocking ==
  /\ \A r1, r2 \in Procs :
       (r1 # r2 /\ SameTip(run[r1], run[r2])) =>
         ~(Made(run[r1], "push") /\ Made(run[r2], "push"))
  /\ \A r \in Procs :
       run[r].result = "push_rejected" =>
         /\ run[r].pc = "done" /\ run[r].exit = "1"
         /\ Effects(run[r]) = <<>>
  /\ \A r1, r2 \in Procs :
       (/\ r1 # r2
        /\ run[r1].base_pr = 0 /\ run[r2].base_pr = 0
        /\ Made(run[r1], "create") /\ Made(run[r2], "create")) =>
         /\ run[r1].pr.number # run[r2].pr.number
         /\ run[r1].new_version # run[r2].new_version

\* Two runs at once for the same previousVersion both found no base proposal
\* and each created one: two open proposals of the bot begin
\* "{package}: {previousVersion} -> ".
C15_Witness ==
  \E r1, r2 \in Procs :
    /\ r1 # r2
    /\ run[r1].pre = run[r2].pre
    /\ run[r1].prs0 = <<>> /\ run[r2].prs0 = <<>>
    /\ Made(run[r1], "search_base") /\ Made(run[r2], "search_base")
    /\ run[r1].base_pr = 0 /\ run[r2].base_pr = 0
    /\ Made(run[r1], "create") /\ Made(run[r2], "create")
    /\ Cardinality(BasesIn(prs, PACKAGE, run[r1].pre)) = 2

\* Two runs at once cherry-picked onto the same tip of H; one pushed, the
\* other's push was rejected and it stopped.
C15_RejectedPush ==
  \E r1, r2 \in Procs :
    /\ r1 # r2
    /\ SameTip(run[r1], run[r2])
    /\ Made(run[r1], "push")
    /\ run[r2].result = "push_rejected"

\* The text without the one newline that may end it.
Chomp(text) ==
  IF text # <<>> /\ text[Len(text)] = "\n" THEN SubSeq(text, 1, Len(text) - 1)
    ELSE text

\* The number of newlines in the text.
Newlines(text) == Cardinality({k \in 1..Len(text) : text[k] = "\n"})

\* The number of lines of a log: one more than the newlines between them.
LineCount(log) == IF log = <<>> THEN 0 ELSE Newlines(Chomp(log)) + 1

\* The part of a failure report between the piece "..." that opens the
\* abbreviated section and the newline before the fence that closes it.
AbbreviatedSection(body) ==
  LET i == CHOOSE k \in 1..Len(body) : body[k] = "...\n"
      j == CHOOSE k \in (i + 1)..Len(body) : body[k] = "~~~\n\n"
  IN SubSeq(body, i + 1, j - 2)

\* The part of a failure report after the heading of the complete log.
CompleteSection(body) ==
  LET j == CHOOSE k \in 1..Len(body) : body[k] = "~~~\n\n"
  IN SubSeq(body, j + 4, Len(body))

\* C16: in the comment a run posts after a failed build, the abbreviated
\* section is the end of the log, in order: the whole log when it has 15
\* lines or fewer, else exactly its last 15 lines (it starts at a line
\* boundary and spans 14 newlines); and the comment holds the whole log
\* under the heading of the complete log.
C16_FailureReport ==
  \A r \in Procs :
    LET rr == run[r]
        log == rr.build_log
        text == Chomp(log)
    IN
    (Made(rr, "comment") /\ ~rr.build_succeeded) =>
      LET body == Last(prs[rr.pr.number].comments)
          section == AbbreviatedSection(body)
          cut == Len(text) - Len(section)
      IN
      /\ cut >= 0
      /\ SubSeq(text, cut + 1, Len(text)) = section
      /\ IF LineCount(log) <= AbbreviatedLines
           THEN cut = 0
           ELSE /\ Newlines(section) = AbbreviatedLines - 1
                /\ text[cut] = "\n"
      /\ Len(CompleteSection(body)) >= Len(log)
      /\ SubSeq(CompleteSection(body), 1, Len(log)) = log

\* A failed build with a log of more than 15 lines has been reported: the
\* abbreviated section is shorter than the log.
C16_Witness ==
  \E r \in Procs :
    LET rr == run[r] IN
    /\ Made(rr, "comment") /\ ~rr.build_succeeded
    /\ LineCount(rr.build_log) > AbbreviatedLines
    /\ Len(AbbreviatedSection(Last(prs[rr.pr.number].comments)))
         < Len(Chomp(rr.build_log))

\* The place of proposal n in the search result, 0 when it is not in it.
PlaceIn(items, n) ==
  IF \E i \in 1..Len(items) : items[i] = n
    THEN CHOOSE i \in 1..Len(items) : items[i] = n
    ELSE 0

\* C17: once a run has searched for its base proposal, the proposal it goes
\* on to amend is an open proposal of the bot whose title begins
\* "{package}: {previousVersion} -> " and no such proposal stands before it
\* in the search result; it takes the fresh path only when there is none;
\* every get, update, comment and ready transition of a transplant run is on
\* that proposal, its push is to that proposal's head, and every other
\* proposal and every other branch is as it was.
C17_BaseSelection ==
  \A r \in Procs :
    LET rr == run[r]
        bases == BasesIn(rr.prs0, PACKAGE, rr.pre)
        b == rr.base_pr
    IN
    Made(rr, "search_base") =>
      /\ b = 0 <=> bases = {}
      /\ b # 0 =>
           /\ b \in bases
           /\ PlaceIn(rr.items, b) # 0
           /\ \A n \in bases :
                PlaceIn(rr.items, n) # 0 /\ PlaceIn(rr.items, b) <= PlaceIn(rr.items, n)
           /\ \A i \in 1..Len(rr.events) :
                /\ rr.events[i].op \in {"get", "update", "comment", "ready"} =>
                     rr.events[i].n = b
                /\ rr.events[i].op \in {"fetch", "push"} =>
                     rr.events[i].ref = rr.prs0[b].head
                /\ rr.events[i].op # "create"
           /\ OthersKept(rr.prs0, prs, b)
           /\ Len(prs) = Len(rr.prs0)
           /\ \A h \in Branches : h # rr.prs0[b].head => fork[h] = rr.fork0[h]

\* The search returned a proposal of the bot that only has package and
\* version in its title first and two base proposals after it; the run
\* updated the first of the two and left the others alone.
C17_Witness ==
  \E r \in Procs :
    LET rr == run[r] IN
    /\ Made(rr, "update")
    /\ Len(rr.items) = 3
    /\ rr.items[1] \notin BasesIn(rr.prs0, PACKAGE, rr.pre)
    /\ rr.items[2] = rr.base_pr
    /\ rr.items[3] \in BasesIn(rr.prs0, PACKAGE, rr.pre)
    /\ prs[rr.items[1]] = rr.prs0[rr.items[1]]
    /\ prs[rr.items[3]] = rr.prs0[rr.items[3]]

\* C18: once a transplant run has pushed, the one commit it added to H has
\* the message "{package}: {baseVersion} -> {newVersion}", an empty line and
\* "Changelog: {changelogRef}", baseVersion being the version of H's tip
\* before the cherry-pick and not previousVersion; the title the run then
\* writes is "{package}: {previousVersion} -> {newVersion}".
C18_TransplantMessage ==
  \A r \in Procs :
    LET rr == run[r]
        H == rr.pr.head
    IN
    PushedBase(rr) =>
      LET before == rr.fork0[H]
          baseVersion == before[Len(before)].tree
      IN
      /\ Len(fork[H]) = Len(before) + 1
      /\ fork[H][Len(fork[H])].run = rr.n
      /\ fork[H][Len(fork[H])].msg =
           <<PACKAGE, ":", baseVersion, "->", rr.new_version, "\n\n",
             "Changelog:", Changelog>>
      /\ Made(rr, "update") =>
           prs[rr.base_pr].title = <<PACKAGE, ":", rr.pre, "->", rr.new_version>>

\* A transplant run for previousVersion 1.0.0 onto a head whose tip is at
\* 1.1.0 has pushed and updated: message from 1.1.0, title from 1.0.0.
C18_Witness ==
  \E r \in Procs :
    LET rr == run[r]
        H == rr.pr.head
    IN
    /\ PushedBase(rr) /\ Made(rr, "update")
    /\ rr.pre = "1.0.0" /\ rr.new_version = "1.2.0"
    /\ fork[H][Len(fork[H])].msg[3] = "1.1.0"
    /\ prs[rr.base_pr].title[3] = "1.0.0"

\* C19: in a sequence of runs one after the other, for every previousVersion
\* there is at most one open proposal of the bot whose title begins
\* "{package}: {previousVersion} -> "; a run that started with such a
\* proposal open creates none, and the one it amends is that one.
C19_AtMostOneBase ==
  /\ \A v \in Versions : Cardinality(BasesIn(prs, PACKAGE, v)) <= 1
  /\ \A r \in Procs :
       LET rr == run[r] IN
       (Made(rr, "search_base") /\ BasesIn(rr.prs0, PACKAGE, rr.pre) # {}) =>
         /\ ~Made(rr, "create")
         /\ rr.base_pr \in BasesIn(rr.prs0, PACKAGE, rr.pre)

\* The second run, for the previousVersion of the first, has amended the
\* proposal the first run created; it is the only one for that version.
C19_Witness ==
  \E r \in Procs :
    LET rr == run[r]
        H == rr.pr.head
    IN
    /\ rr.n = 2
    /\ Made(rr, "update")
    /\ fork[H][1].run = 1 /\ fork[H][1].kind = "commit"
    /\ fork[H][1].from = rr.pre
    /\ BasesIn(prs, PACKAGE, rr.pre) = {rr.base_pr}
    /\ prs[rr.base_pr].title = TitleOf(PACKAGE, rr.pre, rr.new_version)

\* The comment is a success report.
IsSuccessReport(comment) ==
  /\ comment # <<>>
  /\ comment[1] = "nix-build was successful! Marking this PR as ready for review.\n\n"

\* C20: at every moment of a run, failed ones and ones under way included,
\* the calls it has made begin the sequence push, create or update, build,
\* comment, ready, all on the one proposal, and it is about to issue the
\* ready transition only with the comment made; a ready transition comes
\* after a comment of the same run on the same proposal that reports a
\* successful build; and no step takes a proposal out of draft unless its
\* latest comment is a success report.
C20_ReadyAfterReport ==
  /\ [](\A r \in Procs :
         LET rr == run[r]
             second == IF rr.base_pr # 0 THEN "update" ELSE "create"
             whole == <<"push", second, "build", "comment", "ready">>
             ops == EffectOps(rr)
         IN
         /\ Len(ops) <= Len(whole)
         /\ ops = SubSeq(whole, 1, Len(ops))
         /\ rr.pc = "ready" => (Len(ops) = 4 /\ rr.build_succeeded)
         /\ \A i \in CallsOf(rr, "ready") :
              /\ rr.build_succeeded
              /\ \E j \in CallsOf(rr, "comment") :
                   /\ j < i
                   /\ rr.events[j].n = rr.events[i].n
                   /\ \E k \in CallsOf(rr, second) : rr.events[k].n = rr.events[j].n
              /\ Last(prs[rr.events[i].n].comments) = SuccessBody(rr.build_log))
  /\ [][\A n \in 1..Len(prs) :
          (prs[n].isDraft /\ ~prs'[n].isDraft) =>
            /\ prs[n].comments # <<>>
            /\ IsSuccessReport(Last(prs[n].comments))]_vars

\* A run on the fresh path has issued the ready transition: its proposal is
\* out of draft and the success report is its one comment.
C20_Witness ==
  \E r \in Procs :
    LET rr == run[r]
        n == rr.pr.number
    IN
    /\ Made(rr, "ready")
    /\ rr.base_pr = 0
    /\ ~prs[n].isDraft
    /\ prs[n].comments = <<SuccessBody(rr.build_log)>>

====
